---- MODULE Spec2Model ----
(***************************************************************************)
(* Block-range delta-cache executor of SD3Transformer2DModelCache          *)
(* (transformer_sd3_cache.py) and the K/V-downsampling gate of the joint   *)
(* attention processor (attention_cache.py).                               *)
(*                                                                         *)
(* Tensors are abstracted to one element of Z_Modulus; None is a value     *)
(* outside that range.  The numeric kernels of a stage are opaque: a stage *)
(* is a fixed function of (index, primary, auxiliary, temb) that mixes     *)
(* both streams, as joint attention does.                                  *)
(***************************************************************************)
EXTENDS Integers, Sequences, FiniteSets, TLC

\* ---------------------------------------------------------------- bounds
NumLayers == 4
Modulus == 3
MaxResiduals == 2

\* ---------------------------------------------------------------- values
None == -1
Tensors == 0 .. (Modulus - 1)

Min(a, b) == IF a < b THEN a ELSE b

\* tensor + tensor; an operand that is None raises (err)
TensorAdd(a, b) ==
    IF a = None \/ b = None
    THEN [err |-> TRUE, val |-> None]
    ELSE [err |-> FALSE, val |-> (a + b) % Modulus]

\* tensor - tensor; an operand that is None raises (err)
TensorSub(a, b) ==
    IF a = None \/ b = None
    THEN [err |-> TRUE, val |-> None]
    ELSE [err |-> FALSE, val |-> (a - b + Modulus) % Modulus]

\* x.copy(); None has no copy method (err)
TensorCopy(a) ==
    IF a = None
    THEN [err |-> TRUE, val |-> None]
    ELSE [err |-> FALSE, val |-> a]

\* ---------------------------------------------------------------- stages
\* transformer_blocks[i].context_pre_only
ContextPreOnly(i) == i = NumLayers - 1

\* JointTransformerCacheBlock.construct: (hidden, encoder, temb) -> (encoder', hidden')
Block(i, hidden, encoder, temb) ==
    IF hidden = None \/ encoder = None
    THEN [err |-> TRUE, hidden |-> None, encoder |-> None]
    ELSE [err |-> FALSE,
          hidden |-> (hidden + encoder + temb + i + 1) % Modulus,
          encoder |-> IF ContextPreOnly(i)
                      THEN None
                      ELSE (2 * encoder + hidden + temb + i) % Modulus]

\* the block_controlnet_hidden_states argument: None, or a list of tensors
ResidualValues == {1, 2}
NoResiduals == [given |-> FALSE, list |-> << >>]
ResidualLists ==
    {NoResiduals} \cup
    { [given |-> TRUE, list |-> l] :
        l \in UNION { [1 .. n -> ResidualValues] : n \in 1 .. MaxResiduals } }

\* enumerate(self.transformer_blocks[start_idx:end_idx]): the k-th element of
\* the slice is numbered k
IndexBlock(start_idx, k) == k

\* len(self.transformer_blocks) // len(block_controlnet_hidden_states)
IntervalControl(ctrl) == NumLayers \div Len(ctrl.list)

\* the index into block_controlnet_hidden_states used after the k-th block of
\* the slice that starts at start_idx
ResidualIndex(ctrl, start_idx, k) == IndexBlock(start_idx, k) \div IntervalControl(ctrl)

\* one iteration of the loop of forward_blocks_range on loop state st
RangeStep(st, ctrl, temb, start_idx, k) ==
    LET i == start_idx + k
        out == Block(i, st.hidden, st.encoder, temb)
    IN  IF out.err
        THEN [st EXCEPT !.err = TRUE]
        ELSE IF ctrl.given /\ ~ContextPreOnly(i)
             THEN IF IntervalControl(ctrl) = 0
                     \/ ResidualIndex(ctrl, start_idx, k) >= Len(ctrl.list)
                  THEN [st EXCEPT !.err = TRUE]
                  ELSE LET r == ResidualIndex(ctrl, start_idx, k)
                       IN  [err |-> FALSE,
                            hidden |-> (out.hidden + ctrl.list[r + 1]) % Modulus,
                            encoder |-> out.encoder,
                            log |-> Append(st.log,
                                      [idx |-> i,
                                       hidden |-> (out.hidden + ctrl.list[r + 1]) % Modulus,
                                       encoder |-> out.encoder,
                                       residual |-> r])]
             ELSE [err |-> FALSE,
                   hidden |-> out.hidden,
                   encoder |-> out.encoder,
                   log |-> Append(st.log,
                             [idx |-> i, hidden |-> out.hidden,
                              encoder |-> out.encoder, residual |-> None])]

RECURSIVE RangeLoop(_, _, _, _, _, _)
RangeLoop(st, ctrl, temb, start_idx, end_idx, k) ==
    IF st.err \/ start_idx + k >= Min(end_idx, NumLayers)
    THEN st
    ELSE RangeLoop(RangeStep(st, ctrl, temb, start_idx, k),
                   ctrl, temb, start_idx, end_idx, k + 1)

\* forward_blocks_range; log is the record of the stages executed so far in
\* the invocation, extended by one entry per stage run here
ForwardBlocksRange(hidden, encoder, ctrl, temb, start_idx, end_idx, log) ==
    RangeLoop([err |-> FALSE, hidden |-> hidden, encoder |-> encoder, log |-> log],
              ctrl, temb, start_idx, end_idx, 0)


\* ---------------------------------------------------------------- model pieces
\* self.pos_embed, self.time_text_embed, self.context_embedder (opaque)
PosEmbed(x) == (x + 1) % Modulus
TimeTextEmbed(timestep) == (timestep + 1) % Modulus
ContextEmbedder(x) == (2 * x + 1) % Modulus

\* norm_out, proj_out and unpatchify of the final primary state (opaque)
Unpatchify(hidden, t) == (2 * hidden + t + 1) % Modulus

\* cache_params: (start cache layer id, step_stride, use cache layer nums,
\* start use cache step); Python's cache_params[0] is field 1 here
StepStrides == {1}
StartUseSteps == {0}
CacheParams ==
    { <<cs, ss, wl, su>> :
        cs \in 0 .. NumLayers, ss \in StepStrides,
        wl \in 0 .. NumLayers, su \in StartUseSteps }

CacheStart(cp) == cp[1]
\* cache_end = cache_params[0] + cache_params[2]
CacheEndByStride(cp) == cp[1] + cp[2]

CacheEnd(cp) == cp[1] + cp[3]

\* the window branch of forward_blocks with if_skip false: run the window,
\* then record the deltas
WindowRecompute(hidden, encoder, before, before_enc, ctrl, t, cp, lg) ==
    LET r == ForwardBlocksRange(hidden, encoder, ctrl, t, CacheStart(cp), CacheEnd(cp), lg)
        d == TensorSub(r.hidden, before)
        dh == TensorSub(r.encoder, before_enc)
    IN  [err |-> r.err \/ d.err \/ dh.err,
         hidden |-> r.hidden, encoder |-> r.encoder, log |-> r.log,
         delta_cache |-> d.val, delta_cache_hidden |-> dh.val]

\* the window branch of forward_blocks with if_skip true: apply the supplied
\* deltas to the snapshot; the deltas themselves are left as they were
WindowSkipZeroDelta(before, before_enc, dc, dch, lg) ==
    [err |-> FALSE, hidden |-> before, encoder |-> before_enc, log |-> lg,
     delta_cache |-> dc, delta_cache_hidden |-> dch]

WindowSkipNoneAsZero(before, before_enc, dc, dch, lg) ==
    [err |-> FALSE,
     hidden |-> IF dc = None THEN before ELSE (before + dc) % Modulus,
     encoder |-> IF dch = None THEN before_enc ELSE (before_enc + dch) % Modulus,
     log |-> lg,
     delta_cache |-> dc, delta_cache_hidden |-> dch]

WindowSkipRewritesDelta(before, before_enc, dc, dch, lg) ==
    LET h == TensorAdd(before, dc)
        e == TensorAdd(before_enc, dch)
    IN  [err |-> h.err \/ e.err,
         hidden |-> h.val, encoder |-> e.val, log |-> lg,
         delta_cache |-> h.val, delta_cache_hidden |-> e.val]

WindowSkip(before, before_enc, dc, dch, lg) ==
    LET h == TensorAdd(before, dc)
        e == TensorAdd(before_enc, dch)
    IN  [err |-> h.err \/ e.err,
         hidden |-> h.val, encoder |-> e.val, log |-> lg,
         delta_cache |-> dc, delta_cache_hidden |-> dch]

\* forward_blocks as a function of its arguments: whether it raises, and the
\* states and deltas it returns
ForwardBlocks(hidden, encoder, ctrl, t, uc, sk, cp, dc, dch) ==
    IF ~uc
    THEN LET r == ForwardBlocksRange(hidden, encoder, ctrl, t, 0, NumLayers, << >>)
         IN  [err |-> r.err, hidden |-> r.hidden, encoder |-> r.encoder,
              delta_cache |-> dc, delta_cache_hidden |-> dch]
    ELSE LET pre == ForwardBlocksRange(hidden, encoder, ctrl, t, 0, CacheStart(cp), << >>)
             b == TensorCopy(pre.hidden)
             be == TensorCopy(pre.encoder)
             w == IF sk
                  THEN WindowSkip(b.val, be.val, dc, dch, pre.log)
                  ELSE WindowRecompute(pre.hidden, pre.encoder, b.val, be.val,
                                       ctrl, t, cp, pre.log)
             post == ForwardBlocksRange(w.hidden, w.encoder, ctrl, t,
                                        CacheEnd(cp), NumLayers, w.log)
         IN  IF pre.err \/ b.err \/ be.err \/ w.err
             THEN [err |-> TRUE, hidden |-> None, encoder |-> None,
                   delta_cache |-> None, delta_cache_hidden |-> None]
             ELSE [err |-> post.err, hidden |-> post.hidden, encoder |-> post.encoder,
                   delta_cache |-> w.delta_cache,
                   delta_cache_hidden |-> w.delta_cache_hidden]

\* what construct hands back: a 3-tuple, a 1-tuple or a Transformer2DModelOutput
ConstructResultAlwaysTriple(rd, uc, output, dc, dch) ==
    [kind |-> "tuple3", output |-> output, delta |-> dc, delta_hidden |-> dch]

ConstructResult(rd, uc, output, dc, dch) ==
    IF ~rd
    THEN IF uc
         THEN [kind |-> "tuple3", output |-> output, delta |-> dc, delta_hidden |-> dch]
         ELSE [kind |-> "tuple1", output |-> output, delta |-> None, delta_hidden |-> None]
    ELSE [kind |-> "output", output |-> output, delta |-> None, delta_hidden |-> None]

NoResult == [kind |-> "none", output |-> None, delta |-> None, delta_hidden |-> None]

\* ---------------------------------------------------------------- state
VARIABLES
    pc,                 \* position of the invocation in construct / forward_blocks
    arg_hidden,         \* hidden_states as passed to forward_blocks
    arg_encoder,        \* encoder_hidden_states as passed to forward_blocks
    temb,
    controlnet,         \* block_controlnet_hidden_states
    use_cache, if_skip, return_dict,
    cache_params,
    arg_delta,          \* delta_cache as passed by the caller
    arg_delta_hidden,   \* delta_cache_hidden as passed by the caller
    hidden_states, encoder_hidden_states,       \* locals of forward_blocks
    hidden_states_before_cache, encoder_hidden_states_before_cache,
    delta_cache, delta_cache_hidden,            \* locals of forward_blocks
    log,                \* stages executed in this invocation, in order
    result,             \* value returned by construct
    held_delta, held_delta_hidden,  \* the caller's copy of the last returned deltas
    window_delta,       \* deltas of the last recompute that were returned to the caller
    attn_pc,            \* position of the attention object: new, ready, done, error
    attn_layer_idx,     \* Attention.layer_idx
    attn_use_todo,      \* Attention.use_todo
    attn_seq_len,       \* sequence length of the hidden_states given to the processor
    attn_kv_len,        \* sequence length of the sample part of key / value
    attn_out_len,       \* sequence length of the returned hidden_states
    attn_downsampled    \* whether the processor called downsample

execVars == <<pc, arg_hidden, arg_encoder, temb, controlnet, use_cache, if_skip,
          return_dict, cache_params, arg_delta, arg_delta_hidden,
          hidden_states, encoder_hidden_states,
          hidden_states_before_cache, encoder_hidden_states_before_cache,
          delta_cache, delta_cache_hidden, log, result,
          held_delta, held_delta_hidden, window_delta>>

attnVars == <<attn_pc, attn_layer_idx, attn_use_todo, attn_seq_len,
              attn_kv_len, attn_out_len, attn_downsampled>>

vars == <<execVars, attnVars>>

callArgs == <<arg_hidden, arg_encoder, temb, controlnet, use_cache, if_skip,
              return_dict, cache_params, arg_delta, arg_delta_hidden>>
locals == <<hidden_states, encoder_hidden_states,
            hidden_states_before_cache, encoder_hidden_states_before_cache,
            delta_cache, delta_cache_hidden, log>>
caller == <<held_delta, held_delta_hidden, window_delta>>

Timesteps == {0}
InputValues == {0, 1}

ExecInit ==
    /\ pc = "idle"
    /\ arg_hidden = 0 /\ arg_encoder = 0 /\ temb = 0
    /\ controlnet = NoResiduals
    /\ use_cache = FALSE /\ if_skip = FALSE /\ return_dict = FALSE
    /\ cache_params = <<0, 1, 0, 0>>
    /\ arg_delta = None /\ arg_delta_hidden = None
    /\ hidden_states = 0 /\ encoder_hidden_states = 0
    /\ hidden_states_before_cache = None
    /\ encoder_hidden_states_before_cache = None
    /\ delta_cache = None /\ delta_cache_hidden = None
    /\ log = << >>
    /\ result = NoResult
    /\ held_delta = None /\ held_delta_hidden = None
    /\ window_delta = <<None, None>>

AttnInit ==
    /\ attn_pc = "new"
    /\ attn_layer_idx = 0
    /\ attn_use_todo = FALSE
    /\ attn_seq_len = 0 /\ attn_kv_len = 0 /\ attn_out_len = 0
    /\ attn_downsampled = FALSE

Init == ExecInit /\ AttnInit

Idle == pc = "idle"

\* construct, lines 181-191: "scale" in joint_attention_kwargs
ConstructScale ==
    /\ Idle
    /\ pc' = "error"
    /\ result' = NoResult
    /\ UNCHANGED <<callArgs, locals, caller, attnVars>>

\* construct up to the call of forward_blocks; the caller passes the deltas it
\* holds, or None
ConstructWith(residualLists, cacheParams) ==
    /\ Idle
    /\ \E hs \in InputValues, ehs \in InputValues, ts \in Timesteps,
          ctrl \in residualLists, cp \in cacheParams,
          uc \in BOOLEAN, sk \in BOOLEAN, rd \in BOOLEAN,
          dc \in {held_delta, None}, dch \in {held_delta_hidden, None} :
        /\ CacheEnd(cp) <= NumLayers
        /\ arg_hidden' = PosEmbed(hs)
        /\ arg_encoder' = ContextEmbedder(ehs)
        /\ temb' = TimeTextEmbed(ts)
        /\ controlnet' = ctrl
        /\ cache_params' = cp
        /\ use_cache' = uc /\ if_skip' = sk /\ return_dict' = rd
        /\ arg_delta' = dc /\ arg_delta_hidden' = dch
        /\ hidden_states' = PosEmbed(hs)
        /\ encoder_hidden_states' = ContextEmbedder(ehs)
        /\ delta_cache' = dc /\ delta_cache_hidden' = dch
    /\ hidden_states_before_cache' = None
    /\ encoder_hidden_states_before_cache' = None
    /\ log' = << >>
    /\ result' = NoResult
    /\ pc' = "forward_blocks"
    /\ UNCHANGED <<caller, attnVars>>

Construct == ConstructWith(ResidualLists, CacheParams)

\* the same call from a scheduler that also varies the two fields of the
\* descriptor it keeps for itself (step_stride, start use cache step)
SchedStepStrides == {1, 2}
SchedStartUseSteps == {0, 1}
SchedCacheParams ==
    { <<cs, ss, wl, su>> :
        cs \in 0 .. NumLayers, ss \in SchedStepStrides,
        wl \in 0 .. NumLayers, su \in SchedStartUseSteps }
SchedResidualLists == {NoResiduals, [given |-> TRUE, list |-> <<1, 2>>]}

ConstructSched == ConstructWith(SchedResidualLists, SchedCacheParams)

\* forward_blocks, use_cache false: the whole stack in one range call
ForwardBlocksNoCache ==
    /\ pc = "forward_blocks" /\ ~use_cache
    /\ LET r == ForwardBlocksRange(hidden_states, encoder_hidden_states,
                                   controlnet, temb, 0, NumLayers, log)
       IN  /\ hidden_states' = r.hidden
           /\ encoder_hidden_states' = r.encoder
           /\ log' = r.log
           /\ pc' = IF r.err THEN "error" ELSE "blocks_done"
    /\ UNCHANGED <<attnVars, callArgs, caller, result, delta_cache, delta_cache_hidden,
                   hidden_states_before_cache, encoder_hidden_states_before_cache>>

\* forward_blocks, use_cache true: [0, cache_start) and the two snapshots
ForwardBlocksPre ==
    /\ pc = "forward_blocks" /\ use_cache
    /\ LET r == ForwardBlocksRange(hidden_states, encoder_hidden_states,
                                   controlnet, temb, 0, CacheStart(cache_params), log)
           b == TensorCopy(r.hidden)
           be == TensorCopy(r.encoder)
       IN  /\ hidden_states' = r.hidden
           /\ encoder_hidden_states' = r.encoder
           /\ log' = r.log
           /\ hidden_states_before_cache' = b.val
           /\ encoder_hidden_states_before_cache' = be.val
           /\ pc' = IF r.err \/ b.err \/ be.err THEN "error" ELSE "window"
    /\ UNCHANGED <<attnVars, callArgs, caller, result, delta_cache, delta_cache_hidden>>

\* forward_blocks, if_skip false: [cache_start, cache_end) and the deltas
ForwardBlocksRecompute ==
    /\ pc = "window" /\ ~if_skip
    /\ LET w == WindowRecompute(hidden_states, encoder_hidden_states,
                                hidden_states_before_cache,
                                encoder_hidden_states_before_cache,
                                controlnet, temb, cache_params, log)
       IN  /\ hidden_states' = w.hidden
           /\ encoder_hidden_states' = w.encoder
           /\ log' = w.log
           /\ delta_cache' = w.delta_cache
           /\ delta_cache_hidden' = w.delta_cache_hidden
           /\ pc' = IF w.err THEN "error" ELSE "post"
    /\ UNCHANGED <<attnVars, callArgs, caller, result,
                   hidden_states_before_cache, encoder_hidden_states_before_cache>>

\* forward_blocks, if_skip true: snapshot + supplied delta
ForwardBlocksSkip ==
    /\ pc = "window" /\ if_skip
    /\ LET w == WindowSkip(hidden_states_before_cache,
                           encoder_hidden_states_before_cache,
                           delta_cache, delta_cache_hidden, log)
       IN  /\ hidden_states' = w.hidden
           /\ encoder_hidden_states' = w.encoder
           /\ log' = w.log
           /\ delta_cache' = w.delta_cache
           /\ delta_cache_hidden' = w.delta_cache_hidden
           /\ pc' = IF w.err THEN "error" ELSE "post"
    /\ UNCHANGED <<attnVars, callArgs, caller, result,
                   hidden_states_before_cache, encoder_hidden_states_before_cache>>

\* forward_blocks: [cache_end, len(transformer_blocks))
ForwardBlocksPost ==
    /\ pc = "post"
    /\ LET r == ForwardBlocksRange(hidden_states, encoder_hidden_states,
                                   controlnet, temb, CacheEnd(cache_params),
                                   NumLayers, log)
       IN  /\ hidden_states' = r.hidden
           /\ encoder_hidden_states' = r.encoder
           /\ log' = r.log
           /\ pc' = IF r.err THEN "error" ELSE "blocks_done"
    /\ UNCHANGED <<attnVars, callArgs, caller, result, delta_cache, delta_cache_hidden,
                   hidden_states_before_cache, encoder_hidden_states_before_cache>>

\* construct after forward_blocks: output projection and the return; a caller
\* that is handed deltas keeps them for its next call
ConstructReturn ==
    /\ pc = "blocks_done"
    /\ LET res == ConstructResult(return_dict, use_cache,
                                  Unpatchify(hidden_states, temb),
                                  delta_cache, delta_cache_hidden)
       IN  /\ result' = res
           /\ IF res.kind = "tuple3"
              THEN /\ held_delta' = res.delta
                   /\ held_delta_hidden' = res.delta_hidden
                   /\ window_delta' = IF if_skip THEN window_delta
                                      ELSE <<delta_cache, delta_cache_hidden>>
              ELSE UNCHANGED caller
    /\ pc' = "returned"
    /\ UNCHANGED <<callArgs, locals, attnVars>>

\* the invocation is over (returned or raised): its frame is gone and the
\* caller, holding only its deltas, is free to call again
CallerResume ==
    /\ pc \in {"returned", "error"}
    /\ pc' = "idle"
    /\ arg_hidden' = 0 /\ arg_encoder' = 0 /\ temb' = 0
    /\ controlnet' = NoResiduals
    /\ use_cache' = FALSE /\ if_skip' = FALSE /\ return_dict' = FALSE
    /\ cache_params' = <<0, 1, 0, 0>>
    /\ arg_delta' = None /\ arg_delta_hidden' = None
    /\ hidden_states' = 0 /\ encoder_hidden_states' = 0
    /\ hidden_states_before_cache' = None
    /\ encoder_hidden_states_before_cache' = None
    /\ delta_cache' = None /\ delta_cache_hidden' = None
    /\ log' = << >>
    /\ result' = NoResult
    /\ UNCHANGED <<caller, attnVars>>


\* ---------------------------------------------------------------- attention
MaxLayerIdx == 13
MaxSeqLen == 16

\* the cutoff of `layer_idx <= 11`
DownsampleCutoff == 11
\* merge_factor 2.2, times ten
MergeFactorTimesTen == 22

\* int(math.sqrt(n))
ISqrt(n) == CHOOSE r \in 0 .. n : r * r <= n /\ (r + 1) * (r + 1) > n

\* downsample(hidden_states, merge_factor): the sequence length it returns;
\* the reshape to (cur_h, cur_w) needs a square length, the interpolation a
\* non-empty target
Downsample(seq_len) ==
    LET cur_h == ISqrt(seq_len)
        new_h == (cur_h * 10) \div MergeFactorTimesTen
    IN  IF cur_h * cur_h # seq_len \/ new_h = 0
        THEN [err |-> TRUE, len |-> 0]
        ELSE [err |-> FALSE, len |-> new_h * new_h]

\* the condition guarding the downsample call in JointAttnProcessor.__call__
UseDownsampleStrict(use_downsample, layer_idx) ==
    use_downsample /\ layer_idx < DownsampleCutoff

UseDownsample(use_downsample, layer_idx) ==
    use_downsample /\ layer_idx <= DownsampleCutoff

\* JointAttnProcessor.__call__, as far as sequence lengths go
JointAttnProcessor(seq_len, layer_idx, use_downsample) ==
    LET ds == UseDownsample(use_downsample, layer_idx)
        d == Downsample(seq_len)
    IN  [err |-> ds /\ d.err,
         downsampled |-> ds,
         kv_len |-> IF ds THEN d.len ELSE seq_len,
         out_len |-> seq_len]

\* Attention.__init__
AttentionInit ==
    /\ \E li \in 0 .. MaxLayerIdx, ut \in BOOLEAN :
        /\ attn_layer_idx' = li
        /\ attn_use_todo' = ut
    /\ attn_pc' = "ready"
    /\ attn_seq_len' = 0 /\ attn_kv_len' = 0 /\ attn_out_len' = 0
    /\ attn_downsampled' = FALSE
    /\ UNCHANGED execVars

\* Attention.construct: hands layer_idx and use_todo to the joint processor
AttentionConstruct ==
    /\ attn_pc \in {"ready", "done", "error"}
    /\ \E n \in 1 .. MaxSeqLen :
        LET r == JointAttnProcessor(n, attn_layer_idx, attn_use_todo)
        IN  /\ attn_seq_len' = n
            /\ attn_kv_len' = r.kv_len
            /\ attn_out_len' = r.out_len
            /\ attn_downsampled' = r.downsampled
            /\ attn_pc' = IF r.err THEN "error" ELSE "done"
    /\ UNCHANGED <<execVars, attn_layer_idx, attn_use_todo>>

AttnNext ==
    \/ AttentionInit
    \/ AttentionConstruct

SpecAttn == Init /\ [][AttnNext]_vars

Next ==
    \/ ConstructScale
    \/ Construct
    \/ ForwardBlocksNoCache
    \/ ForwardBlocksPre
    \/ ForwardBlocksRecompute
    \/ ForwardBlocksSkip
    \/ ForwardBlocksPost
    \/ ConstructReturn
    \/ CallerResume

Spec == Init /\ [][Next]_vars

SchedNext ==
    \/ ConstructScale
    \/ ConstructSched
    \/ ForwardBlocksNoCache
    \/ ForwardBlocksPre
    \/ ForwardBlocksRecompute
    \/ ForwardBlocksSkip
    \/ ForwardBlocksPost
    \/ ConstructReturn
    \/ CallerResume

SpecSched == Init /\ [][SchedNext]_vars

\* ---------------------------------------------------------------- claims
\* the window an invocation was given, read off the descriptor
WinStart == cache_params[1]
WinLen == cache_params[3]
WinEnd == cache_params[1] + cache_params[3]
WindowInRange == 0 <= WinStart /\ 0 <= WinLen /\ WinEnd <= NumLayers

\* the indices a, a+1, ..., b-1 as a sequence
IdxSeq(a, b) == [k \in 1 .. (IF b > a THEN b - a ELSE 0) |-> a + k - 1]
LogIdx == [k \in 1 .. Len(log) |-> log[k].idx]

\* one range call over the whole stack on the inputs of the invocation
FullRun == ForwardBlocksRange(arg_hidden, arg_encoder, controlnet, temb,
                              0, NumLayers, << >>)
\* one range call over [0, cache_start) on the inputs of the invocation
PreRun == ForwardBlocksRange(arg_hidden, arg_encoder, controlnet, temb,
                             0, WinStart, << >>)
\* one range call over [0, cache_end) on the inputs of the invocation
ThroughWindowRun == ForwardBlocksRange(arg_hidden, arg_encoder, controlnet, temb,
                                       0, WinEnd, << >>)

Recompute == use_cache /\ ~if_skip
Skip == use_cache /\ if_skip

\* C1: in a completed CACHE_RECOMPUTE invocation with the window inside the
\* stack, every stage outside the window produced the state it produces in a
\* NO_CACHE run on the same inputs, and so did the final primary state.
C1_NonCachedZoneInvariance ==
    (pc = "blocks_done" /\ Recompute /\ WindowInRange) =>
        /\ ~FullRun.err
        /\ hidden_states = FullRun.hidden
        /\ \A k \in 1 .. Len(log) :
              (log[k].idx < WinStart \/ log[k].idx >= WinEnd) =>
                  /\ log[k].hidden = FullRun.log[log[k].idx + 1].hidden
                  /\ log[k].encoder = FullRun.log[log[k].idx + 1].encoder

\* C2: a CACHE_RECOMPUTE invocation whose window is the whole stack ends by
\* returning the primary state a NO_CACHE run on the same inputs returns.
C2_WholeStackWindow ==
    (Recompute /\ WinStart = 0 /\ WinLen = NumLayers
       /\ pc \in {"blocks_done", "error"}) =>
        /\ pc = "blocks_done"
        /\ hidden_states = FullRun.hidden

\* C3: in a CACHE_SKIP invocation given the deltas of an earlier
\* CACHE_RECOMPUTE invocation, the state entering the post-window zone is the
\* pre-window state plus those deltas, stream by stream, and no window stage
\* has run.
C3_SkipAppliesDelta ==
    (pc = "post" /\ Skip /\ WindowInRange
       /\ window_delta[1] # None /\ window_delta[2] # None
       /\ arg_delta = window_delta[1] /\ arg_delta_hidden = window_delta[2]) =>
        /\ ~PreRun.err
        /\ hidden_states = (PreRun.hidden + window_delta[1]) % Modulus
        /\ encoder_hidden_states = (PreRun.encoder + window_delta[2]) % Modulus
        /\ LogIdx = IdxSeq(0, WinStart)

C3_Witness ==
    /\ pc = "post" /\ Skip
    /\ WinStart > 0 /\ WinLen > 0
    /\ window_delta[1] \in Tensors \ {0} /\ window_delta[2] \in Tensors \ {0}
    /\ arg_delta = window_delta[1] /\ arg_delta_hidden = window_delta[2]
    /\ hidden_states # hidden_states_before_cache

\* C4: a CACHE_SKIP invocation given no delta for either stream never gets
\* past the window and never returns a result.
C4_SkipWithoutDeltaFails ==
    (Skip /\ (arg_delta = None \/ arg_delta_hidden = None)) =>
        /\ pc \in {"forward_blocks", "window", "error"}
        /\ result.kind = "none"

C4_Witness ==
    /\ pc = "error" /\ Skip
    /\ arg_delta # None /\ arg_delta_hidden = None
    /\ hidden_states_before_cache # None
    /\ encoder_hidden_states_before_cache # None

\* C5: a completed use_cache invocation with the window inside the stack has
\* run every stage of the two outer zones exactly once in index order; with
\* if_skip no window stage has run, without it each has run once in between.
C5_ZonesExecuted ==
    (pc \in {"blocks_done", "returned"} /\ use_cache /\ WindowInRange) =>
        LogIdx = IF if_skip
                 THEN IdxSeq(0, WinStart) \o IdxSeq(WinEnd, NumLayers)
                 ELSE IdxSeq(0, WinStart) \o IdxSeq(WinStart, WinEnd)
                        \o IdxSeq(WinEnd, NumLayers)

C5_Witness ==
    /\ pc = "returned" /\ Skip
    /\ WinStart > 0 /\ WinLen > 1 /\ WinEnd < NumLayers
    /\ Len(log) = NumLayers - WinLen

\* C6: the residual added after a stage that is not context-pre-only is the
\* one at (global stage index) // (N // residual count); nothing is added
\* after a context-pre-only stage or when no residuals are supplied.
C6_ResidualByGlobalIndex ==
    \A k \in 1 .. Len(log) :
        log[k].residual =
            IF controlnet.given /\ ~ContextPreOnly(log[k].idx)
            THEN log[k].idx \div (NumLayers \div Len(controlnet.list))
            ELSE None

\* C7: the deltas of a CACHE_RECOMPUTE invocation are the state after a range
\* call over [0, cache_end) minus the state after a range call over
\* [0, cache_start), both on the inputs of the invocation.
C7_DeltaFromTwoRangeCalls ==
    (pc = "post" /\ Recompute /\ WindowInRange) =>
        /\ delta_cache =
              (ThroughWindowRun.hidden - PreRun.hidden + Modulus) % Modulus
        /\ delta_cache_hidden =
              (ThroughWindowRun.encoder - PreRun.encoder + Modulus) % Modulus

\* C8 as claimed: every completed use_cache invocation hands back the output
\* with both deltas, every other completed invocation the output alone,
\* whatever return_dict is.
C8_ReturnShapeAnyReturnDict ==
    pc = "returned" =>
        IF use_cache
        THEN /\ result.kind = "tuple3"
             /\ result.delta = delta_cache
             /\ result.delta_hidden = delta_cache_hidden
        ELSE /\ result.kind \in {"tuple1", "output"}
             /\ result.delta = None /\ result.delta_hidden = None

\* C8 as amended: with return_dict false a completed use_cache invocation
\* hands back (output, delta_cache, delta_cache_hidden) and any other one
\* (output,); with return_dict true the caller gets a Transformer2DModelOutput
\* holding the output alone, whatever use_cache is.
C8_ReturnShape ==
    pc = "returned" =>
        /\ result.output = Unpatchify(hidden_states, temb)
        /\ IF return_dict
           THEN /\ result.kind = "output"
                /\ result.delta = None /\ result.delta_hidden = None
           ELSE IF use_cache
                THEN /\ result.kind = "tuple3"
                     /\ result.delta = delta_cache
                     /\ result.delta_hidden = delta_cache_hidden
                     /\ result.delta # None /\ result.delta_hidden # None
                ELSE /\ result.kind = "tuple1"
                     /\ result.delta = None /\ result.delta_hidden = None

C8_Witness ==
    /\ pc = "returned" /\ use_cache /\ return_dict
    /\ result.kind = "output"
    /\ delta_cache # None

C10_DownsampleCutoffTwelve ==
    attn_pc = "done" =>
        (attn_downsampled <=> (attn_use_todo /\ attn_layer_idx <= 12))

\* C10 as amended: K/V is downsampled exactly when downsampling is enabled
\* and the layer index is at most 11: enabled, layer 11 is downsampled and
\* layer 12 is not; disabled, no layer is.
C10_DownsampleCutoff ==
    attn_pc = "done" =>
        /\ attn_downsampled <=> (attn_use_todo /\ attn_layer_idx <= 11)
        /\ attn_downsampled => attn_kv_len < attn_seq_len
        /\ ~attn_downsampled => attn_kv_len = attn_seq_len
        /\ attn_out_len = attn_seq_len

C10_Witness ==
    /\ attn_pc = "done" /\ attn_use_todo
    /\ attn_layer_idx = 11 /\ attn_downsampled
    /\ attn_kv_len < attn_seq_len

\* C11: a CACHE_RECOMPUTE invocation whose window has at least one stage and
\* lies inside the stack never ends in an error, wherever the
\* context-pre-only stage falls relative to the window.
C11_RecomputeCompletes ==
    (Recompute /\ WindowInRange /\ WinLen >= 1) => pc # "error"

\* forward_blocks on the arguments of the invocation in progress, with the
\* two scheduler fields of the descriptor replaced by ss and su
OwnArgsRun(ss, su) ==
    ForwardBlocks(arg_hidden, arg_encoder, controlnet, temb, use_cache, if_skip,
                  <<cache_params[1], ss, cache_params[3], su>>,
                  arg_delta, arg_delta_hidden)

\* C12: whatever was invoked before, what forward_blocks returns (or that it
\* raises) is what it returns on the arguments of this invocation alone, and
\* is the same for every step_stride and start_use_step.
C12_StatelessExecutor ==
    (pc = "blocks_done" \/ (pc = "error" /\ use_cache)) =>
        \A ss \in SchedStepStrides, su \in SchedStartUseSteps :
            LET own == OwnArgsRun(ss, su)
            IN  IF pc = "error"
                THEN own.err
                ELSE /\ ~own.err
                     /\ hidden_states = own.hidden
                     /\ encoder_hidden_states = own.encoder
                     /\ delta_cache = own.delta_cache
                     /\ delta_cache_hidden = own.delta_cache_hidden

C12_Witness ==
    /\ pc = "blocks_done" /\ Skip
    /\ cache_params[2] = 2 /\ cache_params[4] = 1
    /\ WinStart > 0 /\ WinLen > 1 /\ WinEnd < NumLayers
    /\ window_delta[1] \in Tensors \ {0}
    /\ arg_delta = window_delta[1]
    /\ hidden_states # hidden_states_before_cache

====
